---- MODULE Spec2Model ----
(***************************************************************************)
(* A model of extract_results.py (opencap-processing): the label cleaner   *)
(* clean_labels, the plotting routines and extract_dynamics.               *)
(*                                                                         *)
(* Python strings that the code parses are sequences of one-character      *)
(* strings, so that substring tests, suffix tests and split('_') are       *)
(* computed the way str does.  A call that raises is a result record with  *)
(* ok = FALSE and the exception's name.                                    *)
(***************************************************************************)
EXTENDS Integers, Sequences, FiniteSets, TLC

VARIABLES
    pc,          \* position of the running call
    labels,      \* clean_labels: the `labels` argument (a list of strings)
    data_type,   \* clean_labels: the `data_type` argument
    cleaned,     \* clean_labels: what the call returned (or raised)
    args,        \* the arguments of the plotting routine that is called
    DISPLAY,     \* os.environ["DISPLAY"] is set and not empty
    figs,        \* pyplot's figures, in the order they were created
    files,       \* the image files written
    events,      \* the savefig and show calls made, in order
    exc,         \* the exception that ended the call, "none" without one
    data,        \* extract_dynamics: the loaded artifact, a list of (case, entry)
    ext,         \* extract_dynamics: its arguments
    frame,       \* extract_dynamics: its locals results, time, output_dir
    dirs,        \* the directories created
    console,     \* the lines printed
    ret,         \* extract_dynamics: the value returned
    trc_files,   \* run_int_steps: the timestamps of each TRC file, in order
    idx,         \* run_int_steps: index of the file being processed
    segments,    \* run_int_steps: the chunk boundaries of that file
    session_id,  \* run_int_steps: the session ID of that file
    chunk,       \* run_int_steps: the index i of the chunk loop
    launched     \* the commands handed to subprocess.run, with their exit status

labelVars == <<labels, data_type, cleaned>>
plotVars  == <<args, DISPLAY, figs, files, events, exc>>
extVars   == <<data, ext, frame, dirs, console, ret>>
runVars   == <<trc_files, idx, segments, session_id, chunk, launched>>
vars == <<pc, labels, data_type, cleaned, args, DISPLAY, figs, files, events, exc,
          data, ext, frame, dirs, console, ret,
          trc_files, idx, segments, session_id, chunk, launched>>

(***************************************************************************)
(* Bounds of the model.                                                    *)
(***************************************************************************)
MaxLabels == 2      \* longest label list handed to clean_labels
MaxChannels == 8    \* most channels (labels) handed to a plotting routine
MaxT == 2           \* longest time vector
MaxNaNRows == 2     \* reference rows whose NaN pattern varies
MaxKeys == 1        \* keys by which a results entry differs from a reference entry
MaxStart == 1       \* latest first timestamp of a TRC file, in seconds
MaxSpan == 21       \* longest TRC file, in seconds

(***************************************************************************)
(* Strings.                                                                *)
(***************************************************************************)
Max(S) == CHOOSE x \in S : \A y \in S : y <= x

\* `sub in s` for a non-empty sub
Contains(s, sub) ==
    \E i \in 1..(Len(s) - Len(sub) + 1) : SubSeq(s, i, i + Len(sub) - 1) = sub

\* s.endswith(suf)
EndsWith(s, suf) ==
    /\ Len(s) >= Len(suf)
    /\ SubSeq(s, Len(s) - Len(suf) + 1, Len(s)) = suf

\* s.split('_')[-1]: what follows the last "_", the whole string without one
SplitLast(s) ==
    LET us == {i \in 1..Len(s) : s[i] = "_"}
        k  == IF us = {} THEN 0 ELSE Max(us)
    IN  SubSeq(s, k + 1, Len(s))

GROUND_FORCE == <<"g","r","o","u","n","d","_","f","o","r","c","e">>
LEFT  == <<"l","e","f","t">>
RIGHT == <<"r","i","g","h","t">>
PX == <<"p","x">>
PY == <<"p","y">>
PZ == <<"p","z">>
VX == <<"v","x">>
VY == <<"v","y">>
VZ == <<"v","z">>
PrefixCoP == <<"C","o","P"," ">>
PrefixGRF == <<"G","R","F"," ">>
PrefixGRM == <<"G","R","M"," ">>

Returned(v) == [ok |-> TRUE, val |-> v]
Raised(e)   == [ok |-> FALSE, exc |-> e]

\* the side letter: 'left' is tested before 'right'
SideOf(label) ==
    IF Contains(label, LEFT) THEN <<"L">>
    ELSE IF Contains(label, RIGHT) THEN <<"R">>
    ELSE <<>>

\* the COP branch without the 'ground_force' test
CleanCOP_NoMarkerTest(label) ==
    LET axis == IF EndsWith(label, PX) THEN <<"x">>
                ELSE IF EndsWith(label, PY) THEN <<"y">>
                ELSE IF EndsWith(label, PZ) THEN <<"z">>
                ELSE SplitLast(label)
    IN  Returned(PrefixCoP \o SideOf(label) \o <<"_">> \o axis)

\* the COP branch of the loop body
CleanCOP(label) ==
    IF Contains(label, GROUND_FORCE)
    THEN LET axis == IF EndsWith(label, PX) THEN <<"x">>
                     ELSE IF EndsWith(label, PY) THEN <<"y">>
                     ELSE IF EndsWith(label, PZ) THEN <<"z">>
                     ELSE SplitLast(label)
         IN  Returned(PrefixCoP \o SideOf(label) \o <<"_">> \o axis)
    ELSE Returned(label)

\* the GRF branch of the loop body
CleanGRF(label) ==
    IF Contains(label, GROUND_FORCE)
    THEN LET axis == IF EndsWith(label, VX) THEN <<"x">>
                     ELSE IF EndsWith(label, VY) THEN <<"y">>
                     ELSE IF EndsWith(label, VZ) THEN <<"z">>
                     ELSE SplitLast(label)
         IN  Returned(PrefixGRF \o SideOf(label) \o <<"_">> \o axis)
    ELSE Returned(label)

\* the GRM branch: label.split('_')[-1][-1] indexes the last character of the
\* last token, and raises IndexError when that token is empty
CleanGRM(label) ==
    IF Contains(label, GROUND_FORCE)
    THEN LET tok == SplitLast(label)
         IN  IF Len(tok) = 0
             THEN Raised("IndexError")
             ELSE Returned(PrefixGRM \o SideOf(label) \o <<"_">> \o <<tok[Len(tok)]>>)
    ELSE Returned(label)

\* one iteration of the loop of clean_labels
CleanLabel(label, dt) ==
    IF dt = "COP" THEN CleanCOP(label)
    ELSE IF dt = "GRF" THEN CleanGRF(label)
    ELSE IF dt = "GRM" THEN CleanGRM(label)
    ELSE Returned(label)

\* clean_labels(labels, data_type): the first iteration that raises ends the call
clean_labels(ls, dt) ==
    IF \E i \in 1..Len(ls) : ~CleanLabel(ls[i], dt).ok
    THEN Raised("IndexError")
    ELSE Returned([i \in 1..Len(ls) |-> CleanLabel(ls[i], dt).val])

(***************************************************************************)
(* The labels the checks draw from: "ground_force" followed by a side and  *)
(* a suffix, and labels without the marker.                                *)
(***************************************************************************)
Sides == { <<>>, <<"_">> \o LEFT, <<"_">> \o RIGHT }
Suffixes == { <<>>, <<"_">>, <<"_">> \o PX, <<"_">> \o PY, <<"_">> \o PZ,
              <<"_">> \o VX, <<"_">> \o VY, <<"_">> \o VZ,
              <<"_","m","x">>, <<"_","t","o","r","q","u","e">> }
MarkedLabels == { GROUND_FORCE \o s \o x : s \in Sides, x \in Suffixes }
             \cup { RIGHT \o <<"_">> \o GROUND_FORCE \o <<"_">> \o LEFT \o <<"_">> \o VX,
                    <<"1","_">> \o GROUND_FORCE \o <<"_">> \o RIGHT \o <<"_">> }
PlainLabels == { <<>>, <<"_">>,
                 <<"g","r","o","u","n","d","_","f","o","r","c">> \o <<"_">> \o LEFT \o <<"_">> \o PX,
                 LEFT \o <<"_">> \o PX,
                 RIGHT \o <<"_">> \o VZ,
                 <<"k","n","e","e","_","r">>,
                 <<"g","r","o","u","n","d","f","o","r","c","e","_">> }
LabelPool == MarkedLabels \cup PlainLabels
DataTypes == {"COP", "GRF", "GRM", "KAM"}

LabelLists == UNION { [1..n -> LabelPool] : n \in 0..MaxLabels }

(***************************************************************************)
(* A direct call of clean_labels.                                          *)
(***************************************************************************)
None == [some |-> FALSE]
Some(v) == [some |-> TRUE, val |-> v]

\* the parts of the state a direct call of clean_labels does not touch
IdlePlot ==
    /\ args = None
    /\ DISPLAY = FALSE
    /\ figs = <<>>
    /\ files = {}
    /\ events = <<>>
    /\ exc = "none"

\* the parts of the state only extract_dynamics touches
IdleExtract ==
    /\ data = <<>>
    /\ ext = None
    /\ frame = None
    /\ dirs = {}
    /\ console = <<>>
    /\ ret = None

\* the parts of the state only run_int_steps touches
IdleRun ==
    /\ trc_files = <<>>
    /\ idx = 0
    /\ segments = <<>>
    /\ session_id = <<>>
    /\ chunk = 0
    /\ launched = <<>>

InitLabels ==
    /\ pc = "clean_labels"
    /\ labels \in LabelLists
    /\ data_type \in DataTypes
    /\ cleaned = Raised("pending")
    /\ IdlePlot
    /\ IdleExtract
    /\ IdleRun

CallCleanLabels ==
    /\ pc = "clean_labels"
    /\ cleaned' = clean_labels(labels, data_type)
    /\ pc' = "done"
    /\ UNCHANGED <<labels, data_type, plotVars, extVars, runVars>>

NextLabels == CallCleanLabels

SpecLabels == InitLabels /\ [][NextLabels]_vars

(***************************************************************************)
(* Sample values.  A number is m * (pi/2)^e, which makes 180/pi the exact   *)
(* value 90 * (pi/2)^-1; NaN is numpy's nan.                               *)
(***************************************************************************)
NaN == [nan |-> TRUE]
Num(m, e) == [nan |-> FALSE, m |-> m, e |-> IF m = 0 THEN 0 ELSE e]
ONE == Num(1, 0)              \* scale = 1
DEG_PER_RAD == Num(90, -1)    \* scale = 180 / np.pi

\* v * s
Times(v, s) == IF v.nan \/ s.nan THEN NaN ELSE Num(v.m * s.m, v.e + s.e)

\* row * scale
Scaled(row, s) == [j \in 1..Len(row) |-> Times(row[j], s)]

\* row[:-1]
DropLast(row) == SubSeq(row, 1, Len(row) - 1)

\* np.isnan(row).any()
AllNaN_Any(row) == \E j \in 1..Len(row) : row[j].nan

\* np.isnan(row).all()
AllNaN(row) == \A j \in 1..Len(row) : row[j].nan

Min(S) == CHOOSE x \in S : \A y \in S : x <= y

(***************************************************************************)
(* Grids of Axes.                                                          *)
(***************************************************************************)
\* int(np.sqrt(n)): the root rounded down
CeilSqrt_Floor(n) == Max({c \in 0..n : c * c <= n})

\* int(np.ceil(np.sqrt(n)))
CeilSqrt(n) == Min({c \in 0..n : c * c >= n})

\* int(np.ceil(a / b))
CeilDiv(a, b) == (a + b - 1) \div b

\* the shape of what plt.subplots(nrows, ncols) returns (squeeze=True): a
\* single Axes (<<>>), a 1-D array, or a 2-D array
Subplots(nrows, ncols) ==
    IF nrows = 1 /\ ncols = 1 THEN <<>>
    ELSE IF nrows = 1 \/ ncols = 1 THEN <<nrows * ncols>>
    ELSE <<nrows, ncols>>

\* "Ensure axs is always 2D array": np.array([[axs]]) for one channel,
\* reshape(1, -1) for a 1-D array
Ensure2D(n, shape) ==
    IF n = 1 THEN <<1, 1>>
    ELSE IF Len(shape) = 1 THEN <<1, shape[1]>>
    ELSE shape

\* a fresh Axes
NewAxes ==
    [removed |-> FALSE, lines |-> <<>>, titled |-> FALSE, title |-> <<>>,
     ylabel |-> "", xlabel |-> "", xticklabels |-> TRUE, ylim |-> <<>>,
     hline |-> FALSE]

\* ax.plot(time, y, c=..., linestyle=..., label=...)
Line(y, c, ls, label) == [y |-> y, c |-> c, ls |-> ls, label |-> label]

\* ax.plot(time, y) raises ValueError unless y is as long as time
BadPlots(time, reqs) == {k \in 1..Len(reqs) : Len(reqs[k].y) # Len(time)}

\* the lines an Axes holds after the plot calls `reqs`, made in order until
\* one raises
Plotted(time, reqs) ==
    IF BadPlots(time, reqs) = {} THEN reqs
    ELSE SubSeq(reqs, 1, Min(BadPlots(time, reqs)) - 1)

\* what a routine sets on the Axes of a channel after its plot calls
Dressing(title, ylabel, ylim, hline, xlabel) ==
    [title |-> title, ylabel |-> ylabel, ylim |-> ylim, hline |-> hline, xlabel |-> xlabel]

Dressed(ax, d) ==
    [ax EXCEPT !.titled = TRUE, !.title = d.title, !.ylabel = d.ylabel,
               !.ylim = d.ylim, !.hline = d.hline, !.xlabel = d.xlabel]

\* for i, ax in enumerate(axs.flat): if i < n: <plot calls; titles>
\* else: <fig.delaxes(ax) where the routine has that branch>.
\* reqs[k] are the plot calls of channel k (Python's i = k - 1), dress[k] what
\* follows them.  A plot call that raises ends the loop.
DrawLoop(time, nAxes, n, reqs, dress, delUnused) ==
    LET bad  == {k \in 1..nAxes : k <= n /\ BadPlots(time, reqs[k]) # {}}
        stop == IF bad = {} THEN nAxes + 1 ELSE Min(bad)
        ax(k) == IF k > stop THEN NewAxes
                 ELSE IF k = stop THEN [NewAxes EXCEPT !.lines = Plotted(time, reqs[k])]
                 ELSE IF k <= n THEN Dressed([NewAxes EXCEPT !.lines = reqs[k]], dress[k])
                 ELSE [NewAxes EXCEPT !.removed = delUnused]
    IN  [axes |-> [k \in 1..nAxes |-> ax(k)],
         exc  |-> IF bad = {} THEN "none" ELSE "ValueError"]

\* ax.get_legend_handles_labels()[1]: the labels of the labelled lines
LegendLabels(ax) ==
    LET l == SelectSeq(ax.lines, LAMBDA ln : ln.label # "")
    IN  [j \in 1..Len(l) |-> l[j].label]

\* the legend loop without its break: the handles of the last Axes that has any
FirstHandles_NoBreak(axes) ==
    LET have == {k \in 1..Len(axes) : LegendLabels(axes[k]) # <<>>}
    IN  IF have = {} THEN <<>>
        ELSE LegendLabels(axes[CHOOSE k \in have : \A j \in have : j <= k])

\* the legend loop: the handles of the first Axes of axs.flat that has any
FirstHandles(axes) ==
    LET have == {k \in 1..Len(axes) : LegendLabels(axes[k]) # <<>>}
    IN  IF have = {} THEN <<>> ELSE LegendLabels(axes[Min(have)])

\* handles, labels = [], []; for ax in axs.flat: ...; if handles: fig.legend(...)
LegendLoop(axes) ==
    IF FirstHandles(axes) # <<>> THEN <<FirstHandles(axes)>> ELSE <<>>

\* the x-label loops of the grid routines, channel k at axs[row, col] with
\* row, col = divmod(k - 1, n_cols): 'Time (s)' on the last row and on the
\* last n_cols channels, no x tick labels on the others; with leftYLabel, the
\* y label `yl` in column 0
LabelLoop(axes, n, n_rows, n_cols, leftYLabel, yl) ==
    [k \in 1..Len(axes) |->
        IF k > n THEN axes[k]
        ELSE LET i   == k - 1
                 row == i \div n_cols
                 col == i % n_cols
                 bottom == row = n_rows - 1 \/ i >= n - n_cols
                 inner  == row < n_rows - 1 /\ i < n - n_cols
             IN  [axes[k] EXCEPT
                    !.xlabel = IF bottom THEN "Time (s)" ELSE @,
                    !.xticklabels = IF inner THEN FALSE ELSE @,
                    !.ylabel = IF leftYLabel /\ col = 0 THEN yl ELSE @]]

\* axs[row, col] of the label loops is inside the array
LabelLoopInRange(shape, n, n_cols) ==
    \A i \in 0..(n - 1) : (i \div n_cols) < shape[1] /\ (i % n_cols) < shape[2]

\* a figure as the routine leaves it, with the exception that ended the routine
\* early ("none" when it ran to its save and show)
Fig(suptitle, shape, axes, legends) ==
    [suptitle |-> suptitle, shape |-> shape, axes |-> axes, legends |-> legends,
     open |-> TRUE, shown |-> FALSE]

Outcome(fig, e, save_path, show) ==
    [fig |-> fig, exc |-> e, save_path |-> save_path, show |-> show]

\* if save_path: (None and '' are false); a path is the tuple of its parts
Truthy(save_path) == save_path.some /\ save_path.val # <<>>

(***************************************************************************)
(* The plotting routines.  Each builds one figure and reports how it ended;*)
(* Finish (below) applies the routine's savefig and show to the state.     *)
(* Channel k of the model is Python's i = k - 1.  The dot of the unit      *)
(* strings '(N.m)' stands for the source's U+22C5.                         *)
(***************************************************************************)

\* plot_grfs: a fixed 2 x 3 grid, no delaxes, x labels on axs[-1, :], the
\* legend of axs[0, 0], show only with a display and display_plot
plot_grfs(time, grfs, grf_labels, experimental_grfs, save_path, display_plot) ==
    LET n == Len(grf_labels)
        reqs == [k \in 1..n |->
            (IF experimental_grfs.some
             THEN <<Line(experimental_grfs.val[k], "black", "--", "Experimental")>>
             ELSE <<>>)
            \o <<Line(grfs[k], "tab:blue", "-", "Simulation")>>]
        dress == [k \in 1..n |-> Dressing(grf_labels[k], "Force (N)", <<>>, FALSE, "")]
        d == DrawLoop(time, 6, n, reqs, dress, FALSE)
        bottom == [k \in 1..6 |->
                     IF k > 3 THEN [d.axes[k] EXCEPT !.xlabel = "Time (s)"]
                     ELSE d.axes[k]]
    IN  IF d.exc # "none"
        THEN Outcome(Fig("Ground Reaction Forces", <<2, 3>>, d.axes, <<>>),
                     d.exc, save_path, FALSE)
        ELSE Outcome(Fig("Ground Reaction Forces", <<2, 3>>, bottom,
                         <<LegendLabels(bottom[1])>>),
                     "none", save_path, DISPLAY /\ display_plot)

\* what plot_muscle_activations, plot_joint_coordinates, plot_joint_speeds,
\* plot_joint_torques and plot_joint_powers share: the grid of
\* ceil(sqrt(n)) columns, the draw loop with delaxes, the label loop, the
\* legend loop (where the routine has one), savefig and an unconditional show
GridPlot(suptitle, time, n, reqs, dress, leftYLabel, yl, withLegend, save_path) ==
    LET n_cols == CeilSqrt(n)
        n_rows == CeilDiv(n, n_cols)
        raw    == Subplots(n_rows, n_cols)
        shape  == Ensure2D(n, raw)
        d      == DrawLoop(time, n_rows * n_cols, n, reqs, dress, TRUE)
        lab    == LabelLoop(d.axes, n, n_rows, n_cols, leftYLabel, yl)
    IN  IF n # 1 /\ raw = <<>>
        THEN Outcome(Fig(suptitle, raw, [k \in 1..(n_rows * n_cols) |-> NewAxes], <<>>),
                     "AttributeError", save_path, FALSE)
        ELSE IF d.exc # "none"
        THEN Outcome(Fig(suptitle, shape, d.axes, <<>>), d.exc, save_path, FALSE)
        ELSE IF ~LabelLoopInRange(shape, n, n_cols)
        THEN Outcome(Fig(suptitle, shape, d.axes, <<>>), "IndexError", save_path, FALSE)
        ELSE Outcome(Fig(suptitle, shape, lab,
                         IF withLegend THEN LegendLoop(lab) ELSE <<>>),
                     "none", save_path, TRUE)

plot_muscle_activations(time, activations, muscle_names, emg_data, save_path) ==
    LET n == Len(muscle_names)
        reqs == [k \in 1..n |->
            (IF emg_data.some /\ ~AllNaN(emg_data.val[k])
             THEN <<Line(emg_data.val[k], "black", "--", "EMG")>>
             ELSE <<>>)
            \o <<Line(DropLast(activations[k]), "tab:red", "-", "Simulation")>>]
        dress == [k \in 1..n |-> Dressing(muscle_names[k], "", <<0, 1>>, FALSE, "")]
    IN  GridPlot("Muscle Activations", time, n, reqs, dress,
                 TRUE, "Activation", TRUE, save_path)

\* if rotational_coords: (the membership test left out)
IsRotational_AnyListed(name, rotational_coords) ==
    rotational_coords.some /\ rotational_coords.val # <<>>

\* if rotational_coords and coord_names[i] in rotational_coords
IsRotational(name, rotational_coords) ==
    /\ rotational_coords.some
    /\ rotational_coords.val # <<>>
    /\ \E j \in 1..Len(rotational_coords.val) : rotational_coords.val[j] = name

plot_joint_coordinates(time, coordinates, coord_names, tracked_coords, rotational_coords, save_path) ==
    LET n == Len(coord_names)
        rot(k)   == IsRotational(coord_names[k], rotational_coords)
        scale(k) == IF rot(k) THEN DEG_PER_RAD ELSE ONE
        unit(k)  == IF rot(k) THEN "(deg)" ELSE "(m)"
        reqs == [k \in 1..n |->
            (IF tracked_coords.some
             THEN <<Line(Scaled(tracked_coords.val[k], scale(k)),
                         "black", ":", "Tracked (OpenCap)")>>
             ELSE <<>>)
            \o <<Line(Scaled(DropLast(coordinates[k]), scale(k)),
                      "tab:blue", "-", "Dynamic Simulation")>>]
        dress == [k \in 1..n |-> Dressing(coord_names[k], unit(k), <<>>, FALSE, "")]
    IN  GridPlot("Joint Coordinates", time, n, reqs, dress,
                 FALSE, "", TRUE, save_path)

plot_joint_speeds(time, speeds, coord_names, tracked_speeds, rotational_coords, save_path) ==
    LET n == Len(coord_names)
        rot(k)   == IsRotational(coord_names[k], rotational_coords)
        scale(k) == IF rot(k) THEN DEG_PER_RAD ELSE ONE
        unit(k)  == IF rot(k) THEN "(deg/s)" ELSE "(m/s)"
        reqs == [k \in 1..n |->
            (IF tracked_speeds.some
             THEN <<Line(Scaled(tracked_speeds.val[k], scale(k)),
                         "black", ":", "Tracked (OpenCap)")>>
             ELSE <<>>)
            \o <<Line(Scaled(DropLast(speeds[k]), scale(k)),
                      "tab:orange", "-", "Dynamic Simulation")>>]
        dress == [k \in 1..n |-> Dressing(coord_names[k], unit(k), <<>>, FALSE, "")]
    IN  GridPlot("Joint Coordinate Speeds", time, n, reqs, dress,
                 FALSE, "", TRUE, save_path)

plot_joint_torques(time, torques, coord_names, mocap_torques, save_path) ==
    LET n == Len(coord_names)
        reqs == [k \in 1..n |->
            (IF mocap_torques.some
             THEN <<Line(mocap_torques.val[k], "black", "--", "Mocap-based ID")>>
             ELSE <<>>)
            \o <<Line(torques[k], "tab:red", "-", "OpenCap Analysis")>>]
        dress == [k \in 1..n |-> Dressing(coord_names[k], "(N.m)", <<>>, FALSE, "")]
    IN  GridPlot("Joint Torques", time, n, reqs, dress,
                 FALSE, "", mocap_torques.some, save_path)

plot_joint_powers(time, powers, coord_names, save_path) ==
    LET n == Len(coord_names)
        reqs == [k \in 1..n |-> <<Line(powers[k], "tab:green", "-", "")>>]
        dress == [k \in 1..n |-> Dressing(coord_names[k], "(W)", <<>>, TRUE, "")]
    IN  GridPlot("Joint Powers", time, n, reqs, dress,
                 FALSE, "", FALSE, save_path)

\* plot_kam: one row of len(kam_labels) Axes, every one with an x label
plot_kam(time, kam, kam_labels, save_path) ==
    LET n == Len(kam_labels)
        reqs == [k \in 1..n |-> <<Line(kam[k], "tab:purple", "-", "")>>]
        dress == [k \in 1..n |-> Dressing(kam_labels[k], "(N.m)", <<>>, TRUE, "Time (s)")]
        d == DrawLoop(time, n, n, reqs, dress, FALSE)
    IN  Outcome(Fig("Knee Adduction Moments (KAM)", <<n>>, d.axes, <<>>),
                d.exc, save_path, d.exc = "none")

\* plot_cops: 2 x 3 for six labels, else min(3, n) columns; no delaxes; an
\* x label on every Axes that has data (on axs[-1] when axs is the list [axs])
plot_cops(time, cops, cop_labels, save_path) ==
    LET n == Len(cop_labels)
        n_cols == IF n = 6 THEN 3 ELSE IF n < 3 THEN n ELSE 3
        n_rows == IF n = 6 THEN 2 ELSE CeilDiv(n, n_cols)
        raw   == Subplots(n_rows, n_cols)
        shape == IF n = 1 THEN <<1>>
                 ELSE IF Len(raw) = 1 /\ n > 3 THEN <<raw[1] \div 3, 3>>
                 ELSE raw
        reqs == [k \in 1..n |-> <<Line(cops[k], "tab:green", "-", "Simulation")>>]
        dress == [k \in 1..n |-> Dressing(cop_labels[k], "Position (m)", <<>>, FALSE, "")]
        d == DrawLoop(time, n_rows * n_cols, n, reqs, dress, FALSE)
        lab == [k \in 1..(n_rows * n_cols) |->
                  IF (n # 1 /\ d.axes[k].lines # <<>>) \/ (n = 1 /\ k = 1)
                  THEN [d.axes[k] EXCEPT !.xlabel = "Time (s)"]
                  ELSE d.axes[k]]
    IN  IF d.exc # "none"
        THEN Outcome(Fig("Centers of Pressure", shape, d.axes, <<>>),
                     d.exc, save_path, FALSE)
        ELSE Outcome(Fig("Centers of Pressure", shape, lab, <<>>),
                     "none", save_path, TRUE)

\* the routine's tail, applied to the state: the figure joins pyplot's
\* figures when plt.subplots creates it; `if save_path: plt.savefig(...)`
\* writes the current figure, which is this one; plt.show() with a display
\* shows every open figure and returns when their windows are closed, which
\* destroys them, and does nothing on the Agg backend.
Finish_ShowFirst(r) ==
    LET id == Len(figs) + 1
        saved == r.exc = "none" /\ Truthy(r.save_path)
        showed == r.exc = "none" /\ r.show
        all == Append(figs, r.fig)
    IN  /\ exc' = r.exc
        /\ files' = IF saved THEN files \cup {r.save_path.val} ELSE files
        /\ events' = events \o (IF showed THEN <<[op |-> "show", path |-> <<>>, fig |-> id]>> ELSE <<>>)
                            \o (IF saved THEN <<[op |-> "savefig", path |-> r.save_path.val, fig |-> id]>> ELSE <<>>)
        /\ figs' = IF showed /\ DISPLAY THEN [k \in 1..id |-> IF all[k].open THEN [all[k] EXCEPT !.open = FALSE, !.shown = TRUE] ELSE all[k]] ELSE all

Finish(r) ==
    LET id == Len(figs) + 1
        saved == r.exc = "none" /\ Truthy(r.save_path)
        showed == r.exc = "none" /\ r.show
        all == Append(figs, r.fig)
    IN  /\ exc' = r.exc
        /\ files' = IF saved THEN files \cup {r.save_path.val} ELSE files
        /\ events' = events
              \o (IF saved THEN <<[op |-> "savefig", path |-> r.save_path.val, fig |-> id]>>
                  ELSE <<>>)
              \o (IF showed THEN <<[op |-> "show", path |-> <<>>, fig |-> id]>> ELSE <<>>)
        /\ figs' = IF showed /\ DISPLAY
                   THEN [k \in 1..id |->
                           IF all[k].open
                           THEN [all[k] EXCEPT !.open = FALSE, !.shown = TRUE]
                           ELSE all[k]]
                   ELSE all

(***************************************************************************)
(* A direct call of one plotting routine: the arguments the checks draw    *)
(* from.  A channel array has one row per label; its rows are as long as   *)
(* the time vector or one sample longer.                                   *)
(***************************************************************************)
Digits == <<"1", "2", "3", "4", "5", "6", "7", "8", "9", "a", "b", "c">>
ChannelName(i) == <<"q", Digits[i]>>
ChannelNames(n) == [i \in 1..n |-> ChannelName(i)]

TimeVector(T) == [j \in 1..T |-> j - 1]

Sample(i, j) == Num(((i + j) % 5) - 1, i % 2)
Data(n, cols) == [i \in 1..n |-> [j \in 1..cols |-> Sample(i, j)]]
RefData(n, cols) == [i \in 1..n |-> [j \in 1..cols |-> Sample(i, j + 1)]]

\* a reference array whose first rows are valid ("ok"), all NaN ("nan") or NaN
\* in the first sample only ("part"), as pat says
NaNPatterns(n) == [1..(IF n < MaxNaNRows THEN n ELSE MaxNaNRows) -> {"ok", "nan", "part"}]
EmgData(n, cols, pat) ==
    [i \in 1..n |-> [j \in 1..cols |->
        IF i \in DOMAIN pat /\ (pat[i] = "nan" \/ (pat[i] = "part" /\ j = 1))
        THEN NaN ELSE Sample(i, j + 1)]]

\* rotational_coords: missing, empty, every channel, the odd channels, the
\* first channel, a name that is no channel
RotationalLists(n) ==
    { None, Some(<<>>), Some(ChannelNames(n)),
      Some(SelectSeq(ChannelNames(n), LAMBDA c : c \in {ChannelName(i) : i \in {1, 3, 5, 7, 9, 11}})),
      Some(<<ChannelName(1)>>), Some(<<<<"q", "0">>>>) }

SavePaths == { None, Some(<<"figure.png">>) }

Args(fn, time, rows, names, ref, rot, save_path, display_plot) ==
    [fn |-> fn, time |-> time, data |-> rows, names |-> names, ref |-> ref, rot |-> rot,
     save_path |-> save_path, display_plot |-> display_plot]

PlainRefs(n, T) == {None} \cup {Some(RefData(n, T + x)) : x \in {0, 1}}
EmgRefs(n, T) == {None} \cup {Some(EmgData(n, T + x, pat)) : x \in {0, 1}, pat \in NaNPatterns(n)}

ArgsOf(fn) ==
    UNION { UNION { UNION {
      LET names == ChannelNames(n)
          time  == TimeVector(T)
          rows  == Data(n, T + x)
      IN  IF fn = "plot_grfs"
          THEN {Args(fn, time, rows, names, ref, None, sp, dp) :
                  ref \in PlainRefs(n, T), sp \in SavePaths, dp \in BOOLEAN}
          ELSE IF fn = "plot_muscle_activations"
          THEN {Args(fn, time, rows, names, ref, None, sp, TRUE) :
                  ref \in EmgRefs(n, T), sp \in SavePaths}
          ELSE IF fn \in {"plot_joint_coordinates", "plot_joint_speeds"}
          THEN {Args(fn, time, rows, names, ref, rot, sp, TRUE) :
                  ref \in PlainRefs(n, T), rot \in RotationalLists(n), sp \in SavePaths}
          ELSE IF fn = "plot_joint_torques"
          THEN {Args(fn, time, rows, names, ref, None, sp, TRUE) :
                  ref \in PlainRefs(n, T), sp \in SavePaths}
          ELSE {Args(fn, time, rows, names, None, None, sp, TRUE) : sp \in SavePaths}
      : x \in {0, 1} } : T \in 1..MaxT } : n \in 1..MaxChannels }

PlotRoutines ==
    {"plot_grfs", "plot_muscle_activations", "plot_joint_coordinates",
     "plot_joint_speeds", "plot_joint_torques", "plot_joint_powers",
     "plot_kam", "plot_cops"}

\* the parts of the state a plotting routine does not touch
IdleLabels ==
    /\ labels = <<>>
    /\ data_type = "COP"
    /\ cleaned = Raised("pending")

InitPlot ==
    /\ pc \in PlotRoutines
    /\ args \in ArgsOf(pc)
    /\ DISPLAY \in BOOLEAN
    /\ figs = <<>>
    /\ files = {}
    /\ events = <<>>
    /\ exc = "none"
    /\ IdleLabels
    /\ IdleExtract
    /\ IdleRun

Return == pc' = "done" /\ UNCHANGED <<args, DISPLAY, labelVars, extVars, runVars>>

CallPlotGrfs ==
    /\ pc = "plot_grfs"
    /\ Finish(plot_grfs(args.time, args.data, args.names, args.ref,
                        args.save_path, args.display_plot))
    /\ Return

CallPlotMuscleActivations ==
    /\ pc = "plot_muscle_activations"
    /\ Finish(plot_muscle_activations(args.time, args.data, args.names, args.ref,
                                      args.save_path))
    /\ Return

CallPlotJointCoordinates ==
    /\ pc = "plot_joint_coordinates"
    /\ Finish(plot_joint_coordinates(args.time, args.data, args.names, args.ref,
                                     args.rot, args.save_path))
    /\ Return

CallPlotJointSpeeds ==
    /\ pc = "plot_joint_speeds"
    /\ Finish(plot_joint_speeds(args.time, args.data, args.names, args.ref,
                                args.rot, args.save_path))
    /\ Return

CallPlotJointTorques ==
    /\ pc = "plot_joint_torques"
    /\ Finish(plot_joint_torques(args.time, args.data, args.names, args.ref,
                                 args.save_path))
    /\ Return

CallPlotJointPowers ==
    /\ pc = "plot_joint_powers"
    /\ Finish(plot_joint_powers(args.time, args.data, args.names, args.save_path))
    /\ Return

CallPlotKam ==
    /\ pc = "plot_kam"
    /\ Finish(plot_kam(args.time, args.data, args.names, args.save_path))
    /\ Return

CallPlotCops ==
    /\ pc = "plot_cops"
    /\ Finish(plot_cops(args.time, args.data, args.names, args.save_path))
    /\ Return

NextPlot ==
    \/ CallPlotGrfs
    \/ CallPlotMuscleActivations
    \/ CallPlotJointCoordinates
    \/ CallPlotJointSpeeds
    \/ CallPlotJointTorques
    \/ CallPlotJointPowers
    \/ CallPlotKam
    \/ CallPlotCops

SpecPlot == InitPlot /\ [][NextPlot]_vars

(***************************************************************************)
(* extract_dynamics.  The artifact holds one entry per case; an entry maps  *)
(* the keys it has to arrays and label lists.  The arrays have the shapes  *)
(* the routine's slicing assumes: the time row and the state arrays        *)
(* (coordinate values and speeds, muscle activations) have one sample more *)
(* than the other arrays.                                                  *)
(***************************************************************************)
CategoryKeys ==
    {"GRF", "GRF_labels", "GRF_experimental", "GRM", "GRM_labels",
     "COP", "COP_labels", "coordinate_values", "coordinates",
     "coordinate_values_toTrack", "rotationalCoordinates",
     "coordinate_speeds", "coordinate_speeds_toTrack", "torques",
     "powers", "coordinates_power", "KAM", "KAM_labels",
     "muscle_activations", "muscles", "muscle_activations_emg", "MCF"}

\* the raw labels of a six-component force array: right then left, x y z
ForceLabels(c) ==
    [i \in 1..6 |->
        GROUND_FORCE \o <<"_">> \o (IF i <= 3 THEN RIGHT ELSE LEFT) \o <<"_">>
        \o <<c, <<"x", "y", "z">>[((i - 1) % 3) + 1]>>]

\* the value an entry holds under `key`, for N time steps
StoreValue(key, N) ==
    IF key = "time" THEN <<[j \in 1..(N + 1) |-> j - 1]>>
    ELSE IF key \in {"GRF", "GRM", "COP"} THEN Data(6, N)
    ELSE IF key = "GRF_experimental" THEN RefData(6, N)
    ELSE IF key = "GRF_labels" THEN ForceLabels("v")
    ELSE IF key = "GRM_labels" THEN ForceLabels("m")
    ELSE IF key = "COP_labels" THEN ForceLabels("p")
    ELSE IF key \in {"coordinate_values", "coordinate_speeds", "muscle_activations"}
         THEN Data(3, N + 1)
    ELSE IF key \in {"coordinate_values_toTrack", "coordinate_speeds_toTrack"}
         THEN RefData(3, N)
    ELSE IF key \in {"coordinates", "muscles"} THEN ChannelNames(3)
    ELSE IF key = "rotationalCoordinates" THEN <<ChannelName(1), ChannelName(3)>>
    ELSE IF key = "torques" THEN Data(3, N)
    ELSE IF key = "muscle_activations_emg" THEN EmgData(3, N, <<"nan", "part">>)
    ELSE IF key \in {"coordinates_power", "KAM_labels"} THEN ChannelNames(2)
    ELSE Data(2, N)

\* the subsets of S with at most k elements
RECURSIVE UpTo(_, _)
UpTo(S, k) ==
    IF k = 0 THEN {{}}
    ELSE UpTo(S, k - 1) \cup {A \cup {x} : A \in UpTo(S, k - 1), x \in S}

\* the keys without which no figure is drawn (line 645)
ForceKeys == {"GRF", "GRF_labels"}

\* the key sets of the entries: the empty entry, the entry with the forces only
\* and the complete entry, each with up to MaxKeys keys added or left out
KeySets ==
    UpTo(CategoryKeys, MaxKeys)
    \cup {ForceKeys \cup A : A \in UpTo(CategoryKeys, MaxKeys)}
    \cup {CategoryKeys \ A : A \in UpTo(CategoryKeys, MaxKeys)}

Entry(K, N) == [key \in K \cup {"time"} |-> StoreValue(key, N)]

\* results.get(key, default)
Get(results, key, default) == IF key \in DOMAIN results THEN Some(results[key]) ELSE default

Init ==
    /\ pc = "extract_dynamics"
    /\ \E K \in KeySets : data = <<[case |-> "0", entry |-> Entry(K, MaxT)],
                               [case |-> "1", entry |-> Entry({}, 1)]>>
    /\ ext \in [display_plot : BOOLEAN, save_plots : BOOLEAN,
                output_dir : {None, Some("out")}]
    /\ DISPLAY \in BOOLEAN
    /\ frame = None
    /\ dirs = {}
    /\ console = <<>>
    /\ ret = None
    /\ args = None
    /\ figs = <<>>
    /\ files = {}
    /\ events = <<>>
    /\ exc = "none"
    /\ IdleLabels
    /\ IdleRun

\* the load taking the entry of the last case instead of the first
Load_LastCase ==
    /\ pc = "extract_dynamics"
    /\ LET results == data[Len(data)].entry
           mkdir   == ext.save_plots /\ ~ext.output_dir.some
       IN  /\ frame' = [results |-> results,
                        time |-> DropLast(results["time"][1]),
                        output_dir |-> IF mkdir THEN Some("results_dir/plots")
                                       ELSE ext.output_dir]
           /\ dirs' = IF mkdir THEN dirs \cup {"results_dir/plots"} ELSE dirs
    /\ pc' = "report"
    /\ UNCHANGED <<labelVars, plotVars, data, ext, console, ret, runVars>>

\* lines 614-631: the first entry, the time vector without its last sample,
\* the default output directory (created) when saving without one
Load ==
    /\ pc = "extract_dynamics"
    /\ LET results == data[1].entry
           mkdir   == ext.save_plots /\ ~ext.output_dir.some
       IN  /\ frame' = [results |-> results,
                        time |-> DropLast(results["time"][1]),
                        output_dir |-> IF mkdir THEN Some("results_dir/plots")
                                       ELSE ext.output_dir]
           /\ dirs' = IF mkdir THEN dirs \cup {"results_dir/plots"} ELSE dirs
    /\ pc' = "report"
    /\ UNCHANGED <<labelVars, plotVars, data, ext, console, ret, runVars>>

Has(key) == key \in DOMAIN frame.results

\* a report line that marks every category as present
ReportLine_AlwaysCheck(text, key) == [text |-> text, mark |-> "check"]

\* a line of the presence report: a check mark or a cross after the category
ReportLine(text, key) == [text |-> text, mark |-> IF Has(key) THEN "check" ELSE "cross"]

\* lines 633-642
Report ==
    /\ pc = "report"
    /\ console' = console \o
         << [text |-> "Available biomechanics data:", mark |-> ""],
            ReportLine("Ground Reaction Forces", "GRF"),
            ReportLine("Ground Reaction Moments", "GRM"),
            ReportLine("Centers of Pressure", "COP"),
            ReportLine("Muscle Activations", "muscle_activations"),
            ReportLine("Joint Torques", "torques"),
            ReportLine("Joint Kinematics", "coordinate_values"),
            ReportLine("Knee Adduction Moment (KAM)", "KAM"),
            ReportLine("Medial Compartment Force (MCF)", "MCF") >>
    /\ pc' = "GRF"
    /\ UNCHANGED <<labelVars, plotVars, data, ext, frame, dirs, ret, runVars>>

\* os.path.join(output_dir, name) if save_plots else None
SavePath(name) ==
    IF ext.save_plots THEN Some(<<frame.output_dir.val, name>>) ELSE None

\* print("<check> Plotted ...") once the routine returned
Printed(text) ==
    IF exc' = "none" THEN Append(console, [text |-> text, mark |-> "check"]) ELSE console

\* a block whose keys are missing, or the way on after a block
Skip(next) ==
    /\ pc' = next
    /\ UNCHANGED <<labelVars, plotVars, extVars, runVars>>

Block(r, text, next) ==
    /\ Finish(r)
    /\ console' = Printed(text)
    /\ pc' = IF exc' = "none" THEN next ELSE "raised"
    /\ UNCHANGED <<labelVars, args, DISPLAY, data, ext, frame, dirs, ret, runVars>>

\* the force block with the other blocks after it instead of inside it
PlotGRF_NotNested ==
    /\ pc = "GRF"
    /\ IF Has("GRF") /\ Has("GRF_labels")
       THEN LET clean_grf_labels == clean_labels(frame.results["GRF_labels"], "GRF")
            IN  Block(plot_grfs(frame.time, frame.results["GRF"], clean_grf_labels.val,
                                Get(frame.results, "GRF_experimental", None),
                                SavePath("ground_reaction_forces.png"), ext.display_plot),
                      "Plotted Ground Reaction Forces", "coordinates")
       ELSE Skip("coordinates")

\* lines 644-654; without GRF and GRF_labels every later block is skipped too
PlotGRF ==
    /\ pc = "GRF"
    /\ IF Has("GRF") /\ Has("GRF_labels")
       THEN LET clean_grf_labels == clean_labels(frame.results["GRF_labels"], "GRF")
            IN  Block(plot_grfs(frame.time, frame.results["GRF"], clean_grf_labels.val,
                                Get(frame.results, "GRF_experimental", None),
                                SavePath("ground_reaction_forces.png"), ext.display_plot),
                      "Plotted Ground Reaction Forces", "coordinates")
       ELSE Skip("return")

\* lines 656-666
PlotCoordinates ==
    /\ pc = "coordinates"
    /\ IF Has("coordinate_values") /\ Has("coordinates")
       THEN Block(plot_joint_coordinates(frame.time, frame.results["coordinate_values"],
                      frame.results["coordinates"],
                      Get(frame.results, "coordinate_values_toTrack", None),
                      Get(frame.results, "rotationalCoordinates", Some(<<>>)),
                      SavePath("joint_coordinates.png")),
                  "Plotted Joint Coordinates", "speeds")
       ELSE Skip("speeds")

\* lines 668-678
PlotSpeeds ==
    /\ pc = "speeds"
    /\ IF Has("coordinate_speeds") /\ Has("coordinates")
       THEN Block(plot_joint_speeds(frame.time, frame.results["coordinate_speeds"],
                      frame.results["coordinates"],
                      Get(frame.results, "coordinate_speeds_toTrack", None),
                      Get(frame.results, "rotationalCoordinates", Some(<<>>)),
                      SavePath("joint_speeds.png")),
                  "Plotted Joint Speeds", "torques")
       ELSE Skip("torques")

\* lines 680-687
PlotTorques ==
    /\ pc = "torques"
    /\ IF Has("torques") /\ Has("coordinates")
       THEN Block(plot_joint_torques(frame.time, frame.results["torques"],
                      frame.results["coordinates"], None,
                      SavePath("joint_torques.png")),
                  "Plotted Joint Torques", "powers")
       ELSE Skip("powers")

\* lines 689-696
PlotPowers ==
    /\ pc = "powers"
    /\ IF Has("powers") /\ Has("coordinates_power")
       THEN Block(plot_joint_powers(frame.time, frame.results["powers"],
                      frame.results["coordinates_power"],
                      SavePath("joint_powers.png")),
                  "Plotted Joint Powers", "KAM")
       ELSE Skip("KAM")

\* the KAM block gated on the signal key alone: results['KAM_labels'] then
\* raises KeyError when the labels are missing
PlotKAM_SignalOnly ==
    /\ pc = "KAM"
    /\ IF Has("KAM") /\ ~Has("KAM_labels")
       THEN /\ exc' = "KeyError"
            /\ pc' = "raised"
            /\ UNCHANGED <<labelVars, args, DISPLAY, figs, files, events, extVars, runVars>>
       ELSE IF Has("KAM")
       THEN Block(plot_kam(frame.time, frame.results["KAM"], frame.results["KAM_labels"],
                      SavePath("knee_adduction_moments.png")),
                  "Plotted Knee Adduction Moments (KAM)", "muscles")
       ELSE Skip("muscles")

\* lines 698-704
PlotKAM ==
    /\ pc = "KAM"
    /\ IF Has("KAM") /\ Has("KAM_labels")
       THEN Block(plot_kam(frame.time, frame.results["KAM"], frame.results["KAM_labels"],
                      SavePath("knee_adduction_moments.png")),
                  "Plotted Knee Adduction Moments (KAM)", "muscles")
       ELSE Skip("muscles")

\* lines 706-715
PlotMuscles ==
    /\ pc = "muscles"
    /\ IF Has("muscle_activations") /\ Has("muscles")
       THEN Block(plot_muscle_activations(frame.time, frame.results["muscle_activations"],
                      frame.results["muscles"],
                      Get(frame.results, "muscle_activations_emg", None),
                      SavePath("muscle_activations.png")),
                  "Plotted Muscle Activations", "COP")
       ELSE Skip("COP")

\* lines 717-726
PlotCOP ==
    /\ pc = "COP"
    /\ IF Has("COP") /\ Has("COP_labels")
       THEN LET clean_cop_labels == clean_labels(frame.results["COP_labels"], "COP")
            IN  Block(plot_cops(frame.time, frame.results["COP"], clean_cop_labels.val,
                                SavePath("centers_of_pressure.png")),
                      "Plotted Centers of Pressure", "GRM")
       ELSE Skip("GRM")

\* lines 733-753: the figure of the GRM block, built in place: a fixed 2 x 3
\* grid, no delaxes, no legend, x labels on axs[-1, :], show unconditional
plot_grm(time, grm, clean_grm_labels, save_path) ==
    LET n == Len(clean_grm_labels)
        reqs == [k \in 1..n |-> <<Line(grm[k], "tab:purple", "-", "Simulation")>>]
        dress == [k \in 1..n |-> Dressing(clean_grm_labels[k], "Moment (N.m)", <<>>, FALSE, "")]
        d == DrawLoop(time, 6, n, reqs, dress, FALSE)
        bottom == [k \in 1..6 |->
                     IF k > 3 THEN [d.axes[k] EXCEPT !.xlabel = "Time (s)"]
                     ELSE d.axes[k]]
    IN  IF d.exc # "none"
        THEN Outcome(Fig("Ground Reaction Moments", <<2, 3>>, d.axes, <<>>),
                     d.exc, save_path, FALSE)
        ELSE Outcome(Fig("Ground Reaction Moments", <<2, 3>>, bottom, <<>>),
                     "none", save_path, TRUE)

\* lines 728-755; clean_labels runs before the figure is created
PlotGRM ==
    /\ pc = "GRM"
    /\ IF Has("GRM") /\ Has("GRM_labels")
       THEN LET clean_grm_labels == clean_labels(frame.results["GRM_labels"], "GRM")
            IN  IF clean_grm_labels.ok
                THEN Block(plot_grm(frame.time, frame.results["GRM"], clean_grm_labels.val,
                                    SavePath("ground_reaction_moments.png")),
                           "Plotted Ground Reaction Moments", "return")
                ELSE /\ exc' = clean_grm_labels.exc
                     /\ pc' = "raised"
                     /\ UNCHANGED <<labelVars, args, DISPLAY, figs, files, events, extVars, runVars>>
       ELSE Skip("return")

\* line 757
ReturnExtracted ==
    /\ pc = "return"
    /\ ret' = Some([time |-> frame.time, results |-> frame.results])
    /\ pc' = "done"
    /\ UNCHANGED <<labelVars, plotVars, data, ext, frame, dirs, console, runVars>>

Next ==
    \/ Load
    \/ Report
    \/ PlotGRF
    \/ PlotCoordinates
    \/ PlotSpeeds
    \/ PlotTorques
    \/ PlotPowers
    \/ PlotKAM
    \/ PlotMuscles
    \/ PlotCOP
    \/ PlotGRM
    \/ ReturnExtracted

Spec == Init /\ [][Next]_vars

(***************************************************************************)
(* run_int_steps.py: for each TRC file, cut [times[0], times[-1]] into     *)
(* chunks of `step` seconds and run psu_tmm.py once per chunk.  Timestamps *)
(* are whole seconds, one sample per second, so the arithmetic of          *)
(* np.arange is exact here.  psu_tmm.py is its argument parser followed by *)
(* main, which may succeed or fail.                                        *)
(***************************************************************************)
step == 10
session_base == "Take_2_10hz"

\* lines 21-30, formatted: the options of the command line in order, each
\* with the values that follow it
command_template(sid, start, stop) ==
    << [opt |-> "--data_path", val |-> <<"Data/PSUTMM/Subject7/Take_2">>],
       [opt |-> "--session_id", val |-> <<sid>>],
       [opt |-> "--multiple_contacts", val |-> <<>>],
       [opt |-> "--use_marker_contact", val |-> <<>>],
       [opt |-> "--start_time", val |-> <<start>>],
       [opt |-> "--stop_time", val |-> <<stop>>],
       [opt |-> "--torque_driven_model", val |-> <<>>] >>

\* psu_tmm.py lines 180-192: the options the parser defines, with the number
\* of values each takes; -h/--help is argparse's own
ParserOptions ==
    { [opt |-> "--session_type", nargs |-> 1, required |-> FALSE],
      [opt |-> "--session_path", nargs |-> 1, required |-> FALSE],
      [opt |-> "--session_id", nargs |-> 1, required |-> TRUE],
      [opt |-> "--case", nargs |-> 1, required |-> FALSE],
      [opt |-> "--start_time", nargs |-> 1, required |-> FALSE],
      [opt |-> "--trial_name", nargs |-> 1, required |-> FALSE],
      [opt |-> "--stop_time", nargs |-> 1, required |-> FALSE],
      [opt |-> "--subject", nargs |-> 1, required |-> FALSE],
      [opt |-> "--multiple_contacts", nargs |-> 0, required |-> FALSE],
      [opt |-> "--help", nargs |-> 0, required |-> FALSE] }

\* the option strings of the command that parse_args does not recognise (none
\* of them abbreviates a defined option), or that come with the wrong number
\* of values
Unrecognized(cmd) ==
    {k \in 1..Len(cmd) :
        ~\E o \in ParserOptions : o.opt = cmd[k].opt /\ o.nargs = Len(cmd[k].val)}

\* the required options the command does not supply
MissingRequired(cmd) ==
    {o.opt : o \in {p \in ParserOptions : p.required}} \ {cmd[k].opt : k \in 1..Len(cmd)}

\* the exit statuses the command can end with: 2 when parse_args rejects the
\* command line, else whatever main ends with
ExitStatuses(cmd) ==
    IF Unrecognized(cmd) # {} \/ MissingRequired(cmd) # {} THEN {2} ELSE {0, 1}

\* np.arange(start, stop, st): start + k * st for every k with start + k * st < stop
Arange(start, stop, st) ==
    IF stop <= start THEN <<>>
    ELSE [k \in 1..CeilDiv(stop - start, st) |-> start + (k - 1) * st]

\* lines 44-46, given that np.arange returned something
Segments(start_time, stop_time) ==
    LET a == Arange(start_time, stop_time, step)
    IN  IF a[Len(a)] < stop_time THEN Append(a, stop_time) ELSE a

\* the timestamps of a TRC file that starts at a and ends at b
Timestamps(a, b) == [j \in 1..(b - a + 1) |-> a + j - 1]

TrcTimes == {Timestamps(a, b) : a \in 0..MaxStart, b \in 0..(MaxStart + MaxSpan)} \ {<<>>}

InitRun ==
    /\ pc = "for trc_file"
    /\ trc_files \in [1..2 -> TrcTimes]
    /\ idx = 0
    /\ segments = <<>>
    /\ session_id = <<>>
    /\ chunk = 0
    /\ launched = <<>>
    /\ IdleLabels
    /\ IdlePlot
    /\ IdleExtract

\* lines 36-49: the next file, its chunk boundaries and its session ID;
\* segments[-1] raises IndexError when np.arange returned nothing
FileLoop ==
    /\ pc = "for trc_file"
    /\ IF idx = Len(trc_files)
       THEN /\ pc' = "done"
            /\ UNCHANGED <<exc, segments, session_id, chunk>>
       ELSE LET times == trc_files[idx + 1]
                start_time == times[1]
                stop_time  == times[Len(times)]
            IN  IF Arange(start_time, stop_time, step) = <<>>
                THEN /\ exc' = "IndexError"
                     /\ pc' = "raised"
                     /\ UNCHANGED <<segments, session_id, chunk>>
                ELSE /\ segments' = Segments(start_time, stop_time)
                     /\ session_id' = <<session_base, "segment", idx>>
                     /\ chunk' = 0
                     /\ pc' = "for chunk"
                     /\ exc' = exc
    /\ UNCHANGED <<labelVars, args, DISPLAY, figs, files, events, extVars,
                   trc_files, idx, launched>>

\* lines 52-62: the command of chunk i, run to its end; check=True raises
\* CalledProcessError on a non-zero exit status.  After the last chunk the
\* outer loop goes on.
ChunkLoop ==
    /\ pc = "for chunk"
    /\ IF chunk = Len(segments) - 1
       THEN /\ idx' = idx + 1
            /\ pc' = "for trc_file"
            /\ UNCHANGED <<exc, chunk, launched>>
       ELSE LET cmd == command_template(session_id, segments[chunk + 1], segments[chunk + 2])
            IN  \E status \in ExitStatuses(cmd) :
                  /\ launched' = Append(launched, [cmd |-> cmd, status |-> status])
                  /\ IF status = 0
                     THEN /\ chunk' = chunk + 1
                          /\ pc' = pc
                          /\ exc' = exc
                     ELSE /\ exc' = "CalledProcessError"
                          /\ pc' = "raised"
                          /\ chunk' = chunk
                  /\ idx' = idx
    /\ UNCHANGED <<labelVars, args, DISPLAY, figs, files, events, extVars,
                   trc_files, segments, session_id>>

NextRun ==
    \/ FileLoop
    \/ ChunkLoop

SpecRun == InitRun /\ [][NextRun]_vars

(***************************************************************************)
(* Claims about clean_labels, checked under SpecLabels.                    *)
(***************************************************************************)

\* C1: for every label that contains "ground_force" and every category COP,
\* GRF, GRM, clean_labels returns exactly "<Prefix> <side>_<axis>": Prefix
\* CoP/GRF/GRM; side L with "left", else R with "right", else empty; axis
\* x/y/z for the suffix px/py/pz (COP) or vx/vy/vz (GRF), else the token after
\* the last "_"; for GRM the last character of that token.
C1_MarkedLabelFormat ==
    LET prefix == IF data_type = "COP" THEN PrefixCoP
                  ELSE IF data_type = "GRF" THEN PrefixGRF ELSE PrefixGRM
        side(l) == IF Contains(l, LEFT) THEN <<"L">>
                   ELSE IF Contains(l, RIGHT) THEN <<"R">> ELSE <<>>
        last(l) == l[Len(l)]
        token(l) == SplitLast(l)
        xyz(l, c) == IF EndsWith(l, <<c, "x">>) THEN <<"x">>
                     ELSE IF EndsWith(l, <<c, "y">>) THEN <<"y">>
                     ELSE IF EndsWith(l, <<c, "z">>) THEN <<"z">>
                     ELSE token(l)
        axis(l) == IF data_type = "COP" THEN xyz(l, "p")
                   ELSE IF data_type = "GRF" THEN xyz(l, "v")
                   ELSE IF token(l) = <<>> THEN <<>> ELSE <<last(token(l))>>
    IN  (pc = "done" /\ data_type \in {"COP", "GRF", "GRM"}) =>
            \A i \in 1..Len(labels) :
                Contains(labels[i], GROUND_FORCE) =>
                    /\ cleaned.ok
                    /\ cleaned.val[i] = prefix \o side(labels[i]) \o <<"_">> \o axis(labels[i])

\* C2: a label that does not contain "ground_force" is returned unchanged
\* whatever the category, and the returned list has the length and the order
\* of the input list.
C2_PlainLabelsPassThrough ==
    pc = "done" =>
        /\ (\A i \in 1..Len(labels) : ~Contains(labels[i], GROUND_FORCE)) =>
               (cleaned.ok /\ cleaned.val = labels)
        /\ cleaned.ok =>
               /\ Len(cleaned.val) = Len(labels)
               /\ \A i \in 1..Len(labels) :
                      ~Contains(labels[i], GROUND_FORCE) => cleaned.val[i] = labels[i]

\* C2's case: "left_px" (no marker) before a marked label, category COP: the
\* first comes back as it was, the second rewritten.
C2_Witness ==
    /\ pc = "done"
    /\ data_type = "COP"
    /\ Len(labels) = 2
    /\ labels[1] = LEFT \o <<"_">> \o PX
    /\ Contains(labels[2], GROUND_FORCE)
    /\ cleaned.ok
    /\ cleaned.val[1] = labels[1]
    /\ cleaned.val[2] # labels[2]

\* C3: clean_labels is total: for every list of string labels and every
\* category COP, GRF, GRM it returns and never raises.
C3_NeverRaises ==
    (pc = "done" /\ data_type \in {"COP", "GRF", "GRM"}) => cleaned.ok

(***************************************************************************)
(* Claims about the plotting routines, checked under SpecPlot.  After a     *)
(* direct call the figure built is figs[1] and args holds the arguments.   *)
(***************************************************************************)
GenericRoutines ==
    {"plot_muscle_activations", "plot_joint_coordinates", "plot_joint_speeds",
     "plot_joint_torques", "plot_joint_powers"}

\* C4: in the generic-layout routines, for every channel count n >= 1, the
\* grid has cols = ceil(sqrt(n)) and rows = ceil(n / cols), is a 2-D
\* rows x cols collection (1 x 1 for n = 1) with
\* (rows - 1) * cols < n <= rows * cols, and exactly the rows * cols - n
\* panels past the channels are removed (n = 7: 3 x 3, 2 removed).
C4_GenericGrid ==
    (pc = "done" /\ args.fn \in GenericRoutines) =>
        LET n    == Len(args.names)
            f    == figs[1]
            rows == f.shape[1]
            cols == f.shape[2]
            gone == {k \in 1..Len(f.axes) : f.axes[k].removed}
        IN  /\ Len(f.shape) = 2
            /\ (cols - 1) * (cols - 1) < n /\ n <= cols * cols
            /\ (rows - 1) * cols < n /\ n <= rows * cols
            /\ Len(f.axes) = rows * cols
            /\ n = 1 => f.shape = <<1, 1>>
            /\ n = 7 => f.shape = <<3, 3>>
            /\ exc = "none" =>
                   /\ Cardinality(gone) = rows * cols - n
                   /\ gone = (n + 1)..(rows * cols)
                   /\ n = 7 => Cardinality(gone) = 2

\* C4's case: seven channels laid out 3 x 3 with two panels removed.
C4_Witness ==
    /\ pc = "done"
    /\ exc = "none"
    /\ args.fn = "plot_joint_torques"
    /\ Len(args.names) = 7
    /\ figs[1].shape = <<3, 3>>
    /\ figs[1].axes[8].removed
    /\ figs[1].axes[9].removed
    /\ ~figs[1].axes[7].removed

\* C5: in every routine and for every channel count n >= 1, every panel of
\* the grid that has no channel (index >= n) is removed from the figure.
C5_NoBlankPanel ==
    (pc = "done" /\ exc = "none") =>
        \A k \in 1..Len(figs[1].axes) :
            k > Len(args.names) => figs[1].axes[k].removed

\* C6: in every routine and for every label-list length n >= 1, each
\* channel is drawn in exactly one panel, titled with its label.
C6_EveryChannelDrawn ==
    (pc = "done" /\ exc = "none") =>
        \A i \in 1..Len(args.names) :
            Cardinality({k \in 1..Len(figs[1].axes) :
                            /\ figs[1].axes[k].titled
                            /\ figs[1].axes[k].title = args.names[i]
                            /\ figs[1].axes[k].lines # <<>>}) = 1

\* C7: in plot_joint_coordinates and plot_joint_speeds, for every channel the
\* simulated curve and the tracked curve (when given) are both multiplied by
\* 180/pi and the y label is the angular unit exactly when the channel's name
\* is in the rotational list; otherwise both are unscaled and the linear unit
\* is used; with an empty or missing list no channel is scaled.
C7_RotationalScaling ==
    (pc = "done" /\ exc = "none"
        /\ args.fn \in {"plot_joint_coordinates", "plot_joint_speeds"}) =>
        LET per == IF args.fn = "plot_joint_speeds" THEN "/s" ELSE ""
            deg == IF args.fn = "plot_joint_speeds" THEN "(deg/s)" ELSE "(deg)"
            lin == IF args.fn = "plot_joint_speeds" THEN "(m/s)" ELSE "(m)"
            listed(k) == /\ args.rot.some
                         /\ \E j \in 1..Len(args.rot.val) : args.rot.val[j] = args.names[k]
            \* v * 180/pi, with v = m * (pi/2)^e
            inDeg(v) == IF v.m = 0 THEN v ELSE [nan |-> FALSE, m |-> 90 * v.m, e |-> v.e - 1]
            want(row, k) == [j \in 1..Len(row) |-> IF listed(k) THEN inDeg(row[j]) ELSE row[j]]
        IN  \A k \in 1..Len(args.names) :
                LET ax  == figs[1].axes[k]
                    sim == ax.lines[Len(ax.lines)]
                IN  /\ sim.y = want(SubSeq(args.data[k], 1, Len(args.time)), k)
                    /\ args.ref.some =>
                           (Len(ax.lines) = 2 /\ ax.lines[1].y = want(args.ref.val[k], k))
                    /\ ax.ylabel = (IF listed(k) THEN deg ELSE lin)
                    /\ (~args.rot.some \/ args.rot.val = <<>>) =>
                           (sim.y = SubSeq(args.data[k], 1, Len(args.time)) /\ ax.ylabel = lin)

\* C7's case: channel 1 is rotational and its first sample pi/2 is drawn as
\* 90, channel 2 is not and keeps the linear unit, both with a tracked curve.
C7_Witness ==
    /\ pc = "done"
    /\ exc = "none"
    /\ args.fn = "plot_joint_coordinates"
    /\ args.ref.some
    /\ args.rot = Some(<<ChannelName(1)>>)
    /\ Len(args.names) = 2
    /\ args.data[1][1] = Num(1, 1)
    /\ figs[1].axes[1].lines[2].y[1] = Num(90, 0)
    /\ figs[1].axes[1].ylabel = "(deg)"
    /\ figs[1].axes[2].lines[2].y[1] = args.data[2][1]
    /\ figs[1].axes[2].ylabel = "(m)"

\* C8: in plot_muscle_activations, for every channel the reference (EMG)
\* curve is drawn iff a reference array is given and its row for the channel
\* is not entirely NaN; the simulated curve is drawn either way; the other
\* rows of the reference array play no part.
C8_EmgPerChannel ==
    (pc = "done" /\ exc = "none" /\ args.fn = "plot_muscle_activations") =>
        \A k \in 1..Len(args.names) :
            LET ax == figs[1].axes[k]
                emg == {j \in 1..Len(ax.lines) : ax.lines[j].label = "EMG"}
                sim == {j \in 1..Len(ax.lines) : ax.lines[j].label = "Simulation"}
                defined == args.ref.some /\ \E j \in 1..Len(args.ref.val[k]) : ~args.ref.val[k][j].nan
            IN  /\ Cardinality(sim) = 1
                /\ Cardinality(emg) = (IF defined THEN 1 ELSE 0)
                /\ \A j \in emg : ax.lines[j].y = args.ref.val[k]

\* C8's case: the reference row of channel 1 is all NaN and that of channel 2
\* is NaN in its first sample only: channel 1 has the simulated curve alone,
\* channel 2 both curves.
C8_Witness ==
    /\ pc = "done"
    /\ exc = "none"
    /\ args.fn = "plot_muscle_activations"
    /\ Len(args.names) >= 2
    /\ args.ref.some
    /\ Len(args.ref.val[1]) = 2
    /\ \A j \in 1..2 : args.ref.val[1][j].nan
    /\ args.ref.val[2][1].nan /\ ~args.ref.val[2][2].nan
    /\ Len(figs[1].axes[1].lines) = 1
    /\ figs[1].axes[1].lines[1].label = "Simulation"
    /\ Len(figs[1].axes[2].lines) = 2
    /\ figs[1].axes[2].lines[1].label = "EMG"


(***************************************************************************)
(* Claims about extract_dynamics (specification Spec).                     *)
(***************************************************************************)
StoreKeys == DOMAIN data[1].entry

SaveEvents == SelectSeq(events, LAMBDA e : e.op = "savefig")

\* the figures with the given title that were drawn to the end
Rendered(title) == {k \in 1..Len(figs) : figs[k].suptitle = title}

\* C9: given a store whose only category keys are GRF and GRF_labels (plus
\* the time row) and saving enabled, extract_dynamics saves exactly one image,
\* the GRF figure, and the presence report shows a cross for every category
\* other than GRF.
C9_GrfOnlyStore ==
    (pc = "done" /\ StoreKeys = {"time", "GRF", "GRF_labels"} /\ ext.save_plots) =>
        /\ files = {<<frame.output_dir.val, "ground_reaction_forces.png">>}
        /\ Len(SaveEvents) = 1
        /\ figs[SaveEvents[1].fig].suptitle = "Ground Reaction Forces"
        /\ Len(console) >= 9
        /\ \A i \in 2..9 :
              console[i].mark = IF console[i].text = "Ground Reaction Forces"
                                THEN "check" ELSE "cross"
        /\ {console[i].text : i \in 2..9} =
              {"Ground Reaction Forces", "Ground Reaction Moments", "Centers of Pressure",
               "Muscle Activations", "Joint Torques", "Joint Kinematics",
               "Knee Adduction Moment (KAM)", "Medial Compartment Force (MCF)"}

C9_Witness ==
    /\ pc = "done"
    /\ StoreKeys = {"time", "GRF", "GRF_labels"}
    /\ ext.save_plots
    /\ ~ext.output_dir.some
    /\ Len(figs) = 1
    /\ Len(events) >= 1
    /\ events[1].op = "savefig"
    /\ console[2].mark = "check"
    /\ console[5].mark = "cross"

\* C10: given a store that contains muscle_activations of shape
\* [n_muscles, T+1] and a muscles list of length n_muscles, extract_dynamics
\* renders the muscle-activation figure, each activation curve has T samples
\* (the last one dropped) and every panel's y-axis is fixed to [0, 1].
C10_MuscleFigureRendered ==
    (pc = "done" /\ {"muscle_activations", "muscles"} \subseteq StoreKeys) =>
        /\ Rendered("Muscle Activations") # {}
        /\ \A f \in Rendered("Muscle Activations") :
            \A k \in 1..Len(data[1].entry["muscles"]) :
                /\ figs[f].axes[k].ylim = <<0, 1>>
                /\ \E j \in 1..Len(figs[f].axes[k].lines) :
                      /\ figs[f].axes[k].lines[j].label = "Simulation"
                      /\ figs[f].axes[k].lines[j].y = DropLast(data[1].entry["muscle_activations"][k])
                      /\ Len(figs[f].axes[k].lines[j].y) = Len(data[1].entry["time"][1]) - 1


\* the categories extract_dynamics plots: the figure's title, the keys the
\* block requires and the file it saves
Categories ==
    { [title |-> "Ground Reaction Forces", keys |-> {"GRF", "GRF_labels"},
       file |-> "ground_reaction_forces.png"],
      [title |-> "Joint Coordinates", keys |-> {"coordinate_values", "coordinates"},
       file |-> "joint_coordinates.png"],
      [title |-> "Joint Coordinate Speeds", keys |-> {"coordinate_speeds", "coordinates"},
       file |-> "joint_speeds.png"],
      [title |-> "Joint Torques", keys |-> {"torques", "coordinates"},
       file |-> "joint_torques.png"],
      [title |-> "Joint Powers", keys |-> {"powers", "coordinates_power"},
       file |-> "joint_powers.png"],
      [title |-> "Knee Adduction Moments (KAM)", keys |-> {"KAM", "KAM_labels"},
       file |-> "knee_adduction_moments.png"],
      [title |-> "Muscle Activations", keys |-> {"muscle_activations", "muscles"},
       file |-> "muscle_activations.png"],
      [title |-> "Centers of Pressure", keys |-> {"COP", "COP_labels"},
       file |-> "centers_of_pressure.png"],
      [title |-> "Ground Reaction Moments", keys |-> {"GRM", "GRM_labels"},
       file |-> "ground_reaction_moments.png"] }

\* the files saved under the given name, in whatever directory
SavedAs(name) == {f \in files : f[Len(f)] = name}

\* C11: for every store with a time row and any subset of the category keys,
\* extract_dynamics completes without raising, and a category whose signal
\* key or labels key is missing is skipped: no figure and no saved file.
C11_MissingKeysSkipped ==
    /\ pc # "raised"
    /\ exc = "none"
    /\ \A c \in Categories :
          ~(c.keys \subseteq StoreKeys) => Rendered(c.title) = {} /\ SavedAs(c.file) = {}

C11_Witness ==
    /\ pc = "done"
    /\ ext.save_plots
    /\ ForceKeys \subseteq StoreKeys
    /\ "torques" \in StoreKeys
    /\ "coordinates" \notin StoreKeys
    /\ Rendered("Ground Reaction Forces") # {}
    /\ SavedAs("ground_reaction_forces.png") # {}
    /\ Rendered("Joint Torques") = {}
    /\ SavedAs("joint_torques.png") = {}
    /\ Rendered("Joint Powers") # {}


\* C12: whenever GRF or GRF_labels is absent from the store, none of the other
\* categories is plotted or saved, even if its own required keys are present.
C12_NothingWithoutForces ==
    ~(ForceKeys \subseteq StoreKeys) =>
        /\ figs = <<>>
        /\ files = {}
        /\ events = <<>>
        /\ \A i \in 1..Len(console) : console[i].text \notin
              {"Plotted Joint Coordinates", "Plotted Joint Speeds", "Plotted Joint Torques",
               "Plotted Joint Powers", "Plotted Knee Adduction Moments (KAM)",
               "Plotted Muscle Activations", "Plotted Centers of Pressure",
               "Plotted Ground Reaction Moments"}

C12_Witness ==
    /\ pc = "done"
    /\ ext.save_plots
    /\ "GRF_labels" \notin StoreKeys
    /\ \A c \in Categories : c.title # "Ground Reaction Forces" => c.keys \subseteq StoreKeys
    /\ figs = <<>>
    /\ files = {}


\* the positions in the event log of the given operation on figure k
EventsOf(op, k) == {i \in 1..Len(events) : events[i].op = op /\ events[i].fig = k}

\* C13: when a save path is given the figure is saved exactly once, before any
\* display step and whatever the show flag and the display; when no save path
\* is given (save_plots false) no file is written.
C13_SavedOnceBeforeShow ==
    /\ ext.save_plots =>
          \A k \in 1..Len(figs) :
              /\ Cardinality(EventsOf("savefig", k)) = 1
              /\ \A i \in EventsOf("savefig", k) :
                    /\ events[i].path \in files
                    /\ events[i].path[1] = frame.output_dir.val
                    /\ \A j \in EventsOf("show", k) : i < j
    /\ ~ext.save_plots => files = {} /\ SaveEvents = <<>>

C13_Witness ==
    /\ pc = "done"
    /\ ext.save_plots
    /\ ~ext.display_plot
    /\ ~DISPLAY
    /\ Len(figs) = 9
    /\ Cardinality(files) = 9
    /\ Len(SaveEvents) = 9
    /\ EventsOf("show", 1) = {}
    /\ EventsOf("savefig", 2) = {2}
    /\ EventsOf("show", 2) = {3}


\* C14: for every category plotted by extract_dynamics the display step is
\* invoked only if the show flag is true and an interactive display is
\* available; with no display, or with display_plot false, no figure is shown.
C14_ShowOnlyIfAllowed ==
    /\ \A i \in 1..Len(events) : events[i].op = "show" => (ext.display_plot /\ DISPLAY)
    /\ \A k \in 1..Len(figs) : figs[k].shown => (ext.display_plot /\ DISPLAY)


\* C15: extract_dynamics returns the stored time row without its final sample
\* (one shorter, same order) together with the first-keyed entry itself, and
\* the entry's keys, label lists and arrays are not modified by the
\* extraction, the plotting or the label cleaning.
C15_ReturnsTimeAndEntry ==
    LET row == data[1].entry["time"][1]
    IN  /\ \A key \in StoreKeys : data[1].entry[key] = StoreValue(key, MaxT)
        /\ pc \notin {"extract_dynamics"} => frame.results = data[1].entry
        /\ pc = "done" =>
              /\ ret.some
              /\ ret.val.results = data[1].entry
              /\ Len(ret.val.time) = Len(row) - 1
              /\ \A j \in 1..(Len(row) - 1) : ret.val.time[j] = row[j]

C15_Witness ==
    /\ pc = "done"
    /\ ret.some
    /\ Len(data) = 2
    /\ CategoryKeys \subseteq StoreKeys
    /\ Len(figs) = 9
    /\ Len(data[1].entry["time"][1]) = MaxT + 1
    /\ Len(ret.val.time) = MaxT
    /\ ret.val.results # data[2].entry


(***************************************************************************)
(* Further claims about the plotting routines (specification SpecPlot).    *)
(***************************************************************************)

\* C16: for every category and every channel array whose column count is
\* len(time) or len(time) + 1, the series handed to the plot has exactly
\* len(time) samples (the last one dropped only when the array is one longer),
\* so that x and y lengths always agree.
C16_SeriesAlignedToTime ==
    (pc = "done" /\ ~args.ref.some) =>
        /\ exc # "ValueError"
        /\ \A k \in 1..Len(figs[1].axes) :
              \A j \in 1..Len(figs[1].axes[k].lines) :
                  Len(figs[1].axes[k].lines[j].y) = Len(args.time)


\* C17: a figure has at most one legend, and its entries are exactly the
\* labelled artists of the lowest-index panel that has any labelled artist;
\* the entries of later panels are never added.
C17_LegendOfFirstLabelledPanel ==
    (pc = "done" /\ exc = "none") =>
        /\ Len(figs[1].legends) <= 1
        /\ Len(figs[1].legends) = 1 =>
              \E k \in 1..Len(figs[1].axes) :
                  /\ LegendLabels(figs[1].axes[k]) # <<>>
                  /\ \A j \in 1..(k - 1) : LegendLabels(figs[1].axes[j]) = <<>>
                  /\ figs[1].legends[1] = LegendLabels(figs[1].axes[k])

C17_Witness ==
    /\ pc = "done"
    /\ exc = "none"
    /\ args.fn = "plot_muscle_activations"
    /\ args.ref.some
    /\ Len(args.names) >= 2
    /\ LegendLabels(figs[1].axes[1]) = <<"Simulation">>
    /\ LegendLabels(figs[1].axes[2]) = <<"EMG", "Simulation">>
    /\ figs[1].legends = << <<"Simulation">> >>


\* C18: for every category and every channel count n >= 1, an occupied panel
\* has the x label "Time (s)" if and only if no occupied panel lies below it
\* in its column, every other occupied panel has its x tick labels
\* suppressed, and no unoccupied panel is labelled.
C18_XLabelOnBottomPanels ==
    (pc = "done" /\ exc = "none") =>
        LET f      == figs[1]
            n      == Len(args.names)
            n_cols == f.shape[Len(f.shape)]
        IN  \A k \in 1..Len(f.axes) :
                IF k > n THEN f.axes[k].xlabel = ""
                ELSE IF k + n_cols > n THEN f.axes[k].xlabel = "Time (s)"
                ELSE f.axes[k].xlabel = "" /\ ~f.axes[k].xticklabels


(***************************************************************************)
(* Figure lifetime (specification Spec).                                   *)
(***************************************************************************)

\* C19: every plotter call releases its figure (closes it or hands it to the
\* display) before returning, on every path including save-only and headless
\* calls; after any sequence of plotter calls no figure is still held open.
C19_FiguresReleased ==
    \A k \in 1..Len(figs) : ~figs[k].open


(***************************************************************************)
(* Claims about run_int_steps (specification SpecRun).                     *)
(***************************************************************************)

\* the commands the script is to run for file f (1-based): one per chunk
ChunkCommands(f) ==
    LET times == trc_files[f]
        s == Segments(times[1], times[Len(times)])
    IN  [k \in 1..(Len(s) - 1) |->
            command_template(<<session_base, "segment", f - 1>>, s[k], s[k + 1])]

\* C20: for every TRC file whose last timestamp is greater than its first,
\* the chunks are contiguous and non-overlapping, the first starts at
\* times[0], the last ends at times[-1], every chunk has positive length at
\* most step, and one command per chunk is run, sequentially and in
\* increasing time order, all with the session ID of that file.
C20_OneCommandPerChunk ==
    (\A f \in 1..Len(trc_files) : trc_files[f][Len(trc_files[f])] > trc_files[f][1]) =>
        /\ pc = "for chunk" =>
              LET times == trc_files[idx + 1]
              IN  /\ Len(segments) >= 2
                  /\ segments[1] = times[1]
                  /\ segments[Len(segments)] = times[Len(times)]
                  /\ \A k \in 1..(Len(segments) - 1) :
                        /\ segments[k] < segments[k + 1]
                        /\ segments[k + 1] - segments[k] <= step
                  /\ session_id = <<session_base, "segment", idx>>
        /\ pc \in {"done", "raised"} =>
              [k \in 1..Len(launched) |-> launched[k].cmd]
                  = ChunkCommands(1) \o ChunkCommands(2)


\* C21: every command line built by run_int_steps uses only options that
\* psu_tmm.py's argument parser defines and supplies every option it
\* requires, so each launched invocation passes argument parsing and reaches
\* main.
C21_CommandsPassParsing ==
    \A k \in 1..Len(launched) :
        /\ Unrecognized(launched[k].cmd) = {}
        /\ MissingRequired(launched[k].cmd) = {}
        /\ launched[k].status # 2

====
